---- MODULE Spec2Model ----
(***************************************************************************)
(* Session-scoped job registry of backend_sessions.py.                     *)
(*                                                                         *)
(* The store is the module-level dict session_jobs                         *)
(*     {session_id: {job_id: job_data}}                                    *)
(* shared, without any lock, by the Flask request threads (threaded=True)  *)
(* and by one daemon thread per job (_process_download_link).              *)
(*                                                                         *)
(* Python objects are modelled by reference:                               *)
(*   - session_jobs is the outer dict, its array of <<key, collection>>    *)
(*     entries in insertion order, a deleted entry left as a dummy until   *)
(*     an insertion rebuilds the array;                                    *)
(*   - colls is the heap of inner dicts (job collections), each the        *)
(*     sequence of its job ids in insertion order;                         *)
(*   - jobs is the heap of job dicts, addressed by job id (a job id is     *)
(*     bound to one dict object, once, at line 111).                       *)
(* A thread that loaded a reference keeps it when the store drops the      *)
(* object.                                                                 *)
(*                                                                         *)
(* One step of the model is one access of a thread to the shared state:    *)
(* a read or a write of session_jobs, of an inner dict, of a job dict or   *)
(* of the clock.  The interpreter can switch threads between two           *)
(* statements, after every call and at every turn of a loop, so two        *)
(* accesses share a step only when they are adjacent in one expression     *)
(* with no call in between (the lookup and the store of line 111, the      *)
(* creation of a dict iterator and its first next()), or when the later    *)
(* one reads something no other thread can have changed in between.  A     *)
(* dict iterator remembers the size of its dict, its place in the entry    *)
(* array and the number of entries it has still to yield; next() raises    *)
(* RuntimeError when it finds another size, or an entry more than it had   *)
(* to yield.                                                               *)
(***************************************************************************)
EXTENDS Naturals, Integers, Sequences, FiniteSets, TLC

\* ------------------------------------------------------------- bounds
NumThreads == 2       \* concurrent request threads
NumSessions == 2      \* distinct X-Session-ID values in play
MaxJobs == 2          \* start_download calls that allocate a job id
MaxRequests == 2      \* HTTP requests taken up in one behaviour
MaxClock == 25        \* last clock value (hours)
ClockStep == 25       \* hours added by one clock tick
NumSweepSessions == 3 \* sessions with jobs in the store a lone sweep starts from
MaxFormats == 3       \* candidate formats in one resolver result
MaxNameLen == 3       \* length of the short file names tried exhaustively
MaxTitleLen == 150    \* length of the longest title tried

\* ------------------------------------------------- program constants
\* line 39-40
MAX_SESSIONS == 1000
SESSION_TIMEOUT_HOURS == 24

Threads == 1..NumThreads
\* Session keys; their string sort order is the numeric order of the model.
SessionIds == 1..NumSessions
JobIds == 1..MaxJobs
\* Inner dict objects alive at once: one per stored session, one per
\* reference held by a request thread.
CollIds == 1..(NumSweepSessions + NumThreads)

\* Python's None, and a value that is present, for the nullable fields
None == << >>
Some(x) == <<x>>
NoRef == 0

\* ------------------------------------------------ the external resolver
\* info returned by ydl.extract_info: an optional top-level url and the
\* list of the candidate formats' urls (None for a format without url).
\* Strings the worker computes on (title, ext, filename) are sequences of
\* characters.
ResolverInfos == { [url |-> Some("u0"), formats |-> << >>], [url |-> None, formats |-> <<None, Some("u0"), Some("u1")>>], [url |-> None, formats |-> <<None>>] }

Title == <<"a", "<", "b", ">", "c">>
Ext == <<"m", "p", "4">>

\* session_jobs, colls and jobs hold the sessions the requests of a
\* behaviour name.  fillers counts the other sessions of the store: sessions
\* that earlier GET requests of other clients created (line 99), that are
\* empty, that no request of the behaviour names, that come first in the
\* insertion order of session_jobs and whose keys sort after the keys of
\* session_jobs.  Their keys are the integers up to FillerTop; the ones still
\* stored are the fillers highest.
\* evicted is a history variable: the keys of SessionIds that
\* cleanup_old_sessions has deleted from session_jobs so far.
\* nreq counts the requests taken up since the behaviour began.
\* call is one call of a pure helper function: its arguments and, once the
\* function has returned, its result (NoCall in the registry's behaviours).
VARIABLES session_jobs, fillers, dk_usable, colls, jobs, download_threads, thr, now, nextJob, evicted, nreq, call

vars == <<session_jobs, fillers, dk_usable, colls, jobs, download_threads, thr, now, nextJob, evicted, nreq, call>>

\* ------------------------------------------------------ dict semantics
\* session_jobs is the entry array of the dict (CPython): one entry
\* <<key, inner dict>> per insertion, in insertion order.  del leaves a
\* dummy entry in the place of the entry it removes; the dummies go when
\* an insertion finds no usable slot left and the array is rebuilt.
\* dk_usable is the number of slots the array still has for new keys.
Dummy == <<0, NoRef>>

Keys(sj) == {sj[i][1] : i \in DOMAIN sj} \ {0}

\* the entries that hold a key
Live(sj) == SelectSeq(sj, LAMBDA e : e # Dummy)

Used(sj) == Len(Live(sj))

Has(sj, s) == s \in Keys(sj)

\* sj[s]; only used where Has(sj, s)
Get(sj, s) == sj[CHOOSE i \in DOMAIN sj : sj[i][1] = s][2]

\* the share of a table of n slots that can hold entries, and the slots
\* asked for when the array of a dict of used keys is rebuilt; the smallest
\* table has 8 slots
USABLE_FRACTION(n) == (2 * n) \div 3

GROWTH_RATE(used) == 3 * used

\* n | 8 and n | 7 on the bits of n
Or8(n) == IF (n \div 8) % 2 = 1 THEN n ELSE n + 8

Or7(n) == (n \div 8) * 8 + 7

\* the smallest power of two above n, from size on
RECURSIVE PowerAbove(_, _)
PowerAbove(size, n) == IF size > n THEN size ELSE PowerAbove(2 * size, n)

\* the table of a rebuilt array that is asked to hold minsize slots: 2 to
\* the bit length of ((minsize | 8) - 1) | 7 (CPython 3.11), which is 16 for
\* 1 to 15 slots
KeysSize(minsize) == PowerAbove(8, Or7(Or8(minsize) - 1))

\* the smallest table that can hold n entries
RECURSIVE TableFor(_, _)
TableFor(size, n) == IF USABLE_FRACTION(size) >= n THEN size ELSE TableFor(2 * size, n)

\* dk_usable of a dict that n insertions built, with no deletion so far
Room(n) == USABLE_FRACTION(TableFor(8, n)) - n

\* sj[s] = c: an existing key keeps its entry; a new key goes last, into a
\* free slot of the array or, when none is left (u = 0), behind the entries
\* of the rebuilt array, which holds no dummy
Put(sj, u, s, c) == IF Has(sj, s) THEN [i \in DOMAIN sj |-> IF sj[i][1] = s THEN <<s, c>> ELSE sj[i]] ELSE IF u > 0 THEN Append(sj, <<s, c>>) ELSE Append(Live(sj), <<s, c>>)

\* dk_usable after sj[s] = c, for a dict of n keys
UsableAfterPut(sj, u, n, s) == IF Has(sj, s) THEN u ELSE IF u > 0 THEN u - 1 ELSE USABLE_FRACTION(KeysSize(GROWTH_RATE(n))) - n - 1

\* del sj[s]: the entry becomes a dummy
Del(sj, s) == [i \in DOMAIN sj |-> IF sj[i][1] = s THEN Dummy ELSE sj[i]]

\* the first entry after position i that holds a key, 0 when there is none
NextEntry(sj, i) == IF \E k \in DOMAIN sj : k > i /\ sj[k] # Dummy THEN CHOOSE k \in DOMAIN sj : k > i /\ sj[k] # Dummy /\ \A m \in DOMAIN sj : (m > i /\ sj[m] # Dummy) => k <= m ELSE 0

InSeq(q, x) == \E i \in DOMAIN q : q[i] = x

\* the keys of the filler sessions: FillerTop - f + 1 .. FillerTop when f
\* of them are stored
FillerTop == MAX_SESSIONS + MAX_SESSIONS + MAX_SESSIONS

IsFiller(k) == k > MAX_SESSIONS

FillerKeys(f) == [i \in 1..f |-> FillerTop - f + i]

\* len(session_jobs)
StoreLen(sj, f) == Used(sj) + f

\* key in session_jobs
HasKey(sj, f, k) == IF IsFiller(k) THEN k > FillerTop - f /\ k <= FillerTop ELSE Has(sj, k)

\* ------------------------------------------------------------ threads
\* A request thread: the route it serves (op), its position (pc), the
\* session header (sid), the job id of the path or the one it allocated
\* (jid), its reference to a job collection (ref), the sessions its sweep
\* still has to delete or the values it lists (rem), and its response
\* (code, val).  pre is a history field: the job dict as it was when
\* cancel_job was called (NoJob when the job was not in the collection of
\* the session then), or as GET /download read it at line 397.
\* A loop over session_jobs.items() keeps the cutoff of line 65, the size
\* of the dict when the iterator was made (n0), the position in
\* session_jobs of the last entry the iterator has looked at (it; -1 while
\* it is among the filler sessions), the number of entries the iterator
\* may still yield (left: n0 less the entries yielded, the filler sessions
\* counted as yielded from the start) and the key of the current entry
\* (cur); the loop over
\* the jobs of the current entry keeps the size of that dict (m0) and the
\* number of jobs passed (jt).  clk is the value datetime.now() returned to
\* a statement that has not stored it yet.
Idle == [op |-> "idle", pc |-> "idle", sid |-> 0, jid |-> 0, ref |-> NoRef, rem |-> << >>, code |-> 0, val |-> None, pre |-> None, cutoff |-> 0, n0 |-> 0, it |-> 0, left |-> 0, cur |-> 0, m0 |-> 0, jt |-> 0, clk |-> 0]

\* Request threads are interchangeable: a request is given to the first
\* free one.
FirstFree(t) == thr[t].pc = "idle" /\ \A u \in Threads : u < t => thr[u].pc # "idle"

\* collection objects still referenced by the store or by a thread
Referenced(sj, th) == ({sj[i][2] : i \in DOMAIN sj} \cup {th[t].ref : t \in Threads}) \ {NoRef}

\* a fresh inner dict: an object nobody references
NewColl(sj, th) == CHOOSE c \in CollIds : c \notin Referenced(sj, th)

\* Addresses of objects carry no meaning, so every state is stored with its
\* collections renumbered: the collection of the i-th key of session_jobs
\* gets address i, the collections that only threads still hold follow in
\* the order of the first thread holding them.
FirstHolder(th, c) == CHOOSE t \in Threads : th[t].ref = c /\ \A u \in Threads : th[u].ref = c => t <= u

Orphans(sj, th) == Referenced(sj, th) \ {sj[i][2] : i \in DOMAIN sj}

Rename(sj, th, c) == IF \E i \in DOMAIN sj : sj[i][2] = c THEN Cardinality({k \in DOMAIN sj : sj[k] # Dummy /\ k <= CHOOSE i \in DOMAIN sj : sj[i][2] = c}) ELSE Used(sj) + Cardinality({d \in Orphans(sj, th) : FirstHolder(th, d) <= FirstHolder(th, c)})

\* Next state of store, heap of collections and threads; collections that
\* are no longer referenced are garbage.
Commit(sj, cl, th) ==
    /\ session_jobs' = [i \in DOMAIN sj |-> IF sj[i] = Dummy THEN Dummy ELSE <<sj[i][1], Rename(sj, th, sj[i][2])>>]
    /\ thr' = [t \in Threads |-> IF th[t].ref = NoRef THEN th[t] ELSE [th[t] EXCEPT !.ref = Rename(sj, th, th[t].ref)]]
    /\ colls' = [c \in CollIds |-> IF \E d \in Referenced(sj, th) : Rename(sj, th, d) = c THEN cl[CHOOSE d \in Referenced(sj, th) : Rename(sj, th, d) = c] ELSE << >>]

\* ---------------------------------------------------------- job dicts
NoJob == [status |-> "absent"]

\* line 111-126: the initial job dict
NewJob(j, s, t) == [id |-> j, session_id |-> s, url |-> "url", status |-> "processing", progress |-> 0, created_at |-> t, completed_at |-> None, error |-> None, download_url |-> None, filename |-> None, file_size |-> 0, title |-> <<"O", "b", "t">>, duration |-> 0, quality_requested |-> "best"]

\* no pure helper is being called
NoCall == [fn |-> "none"]

\* A worker thread that does not exist (yet): its position, the url it
\* selected or the message of the exception it caught, the clock value it
\* read for completed_at.  returned and known are history fields:
\* start_download has returned the job id; a response (of POST /start or
\* GET /jobs) has carried the job id to the client.
NoWorker == [pc |-> "none", url |-> None, err |-> None, clk |-> 0, returned |-> FALSE, known |-> FALSE]

Init ==
    /\ session_jobs = << >>
    /\ fillers = 0
    /\ dk_usable = Room(0)
    /\ colls = [c \in CollIds |-> << >>]
    /\ jobs = [j \in JobIds |-> NoJob]
    /\ download_threads = [j \in JobIds |-> NoWorker]
    /\ thr = [t \in Threads |-> Idle]
    /\ now = 0
    /\ nextJob = 1
    /\ evicted = {}
    /\ nreq = 0
    /\ call = NoCall

\* the wall clock read by datetime.now()
Tick ==
    /\ now + ClockStep <= MaxClock
    /\ now' = now + ClockStep
    /\ UNCHANGED <<call, fillers, dk_usable, session_jobs, colls, jobs, download_threads, thr, nextJob, evicted, nreq>>

\* ================================================== POST /start (route)
\* Line 327: the sweep runs first, whatever the body holds.
\* ------------------------------------------------ cleanup_old_sessions
\* line 356-359: any exception of the route body answers 500
Fault(r) == [r EXCEPT !.pc = "ret", !.rem = << >>, !.ref = NoRef, !.code = 500, !.cutoff = 0, !.n0 = 0, !.it = 0, !.left = 0, !.cur = 0, !.m0 = 0, !.jt = 0, !.clk = 0]

\* line 72-73: a job is recent when created > cutoff
Recent(j, cutoff) == jobs[j].created_at > cutoff

\* a list that keeps only the first session found old
ListedFirstOnly(rem, s) == IF rem = << >> THEN <<s>> ELSE rem

\* line 77: sessions_to_remove.append(session_id)
Listed(rem, s) == Append(rem, s)

\* the loop of line 68 goes on to its next turn
NextSession(r) == [r EXCEPT !.pc = "scan_next", !.ref = NoRef, !.cur = 0, !.m0 = 0, !.jt = 0]

\* line 68-70: the loop yields the entry at position i
Visit(r, i) == [r EXCEPT !.pc = "scan_jobs", !.it = i, !.left = r.left - 1, !.cur = session_jobs[i][1], !.ref = session_jobs[i][2]]

\* The filler sessions deleted since the iterator r was made, while r is
\* among them: each was yielded before it went, or was still ahead.
LateFillers(r) == IF r.it = -1 /\ r.n0 - r.left > fillers THEN r.n0 - r.left - fillers ELSE 0

\* the loop of line 68 is over
ScanOver(r) == [r EXCEPT !.pc = "age_del", !.ref = NoRef, !.cutoff = 0, !.n0 = 0, !.it = 0, !.left = 0, !.cur = 0, !.m0 = 0, !.jt = 0]

\* A request thread takes up POST /start with session header s; line 65:
\* cutoff_time = datetime.now() - timedelta(hours=SESSION_TIMEOUT_HOURS)
SweepCutoff(t, s) ==
    /\ FirstFree(t)
    /\ nreq < MaxRequests
    /\ nreq' = nreq + 1
    /\ Commit(session_jobs, colls, [thr EXCEPT ![t] = [Idle EXCEPT !.op = "start", !.pc = "scan_iter", !.sid = s, !.cutoff = now - SESSION_TIMEOUT_HOURS]])
    /\ UNCHANGED <<call, fillers, dk_usable, jobs, download_threads, now, nextJob, evicted>>

\* line 68: the iterator of session_jobs.items() is made and its first
\* entry taken.  The filler sessions come first; each is empty, so that
\* line 70-76 list none of them.
SweepIter(t) ==
    /\ thr[t].pc = "scan_iter"
    /\ LET r == [thr[t] EXCEPT !.n0 = StoreLen(session_jobs, fillers), !.left = Used(session_jobs)]
           k == NextEntry(session_jobs, 0) IN
        IF fillers > 0
        THEN Commit(session_jobs, colls, [thr EXCEPT ![t] = [r EXCEPT !.pc = "scan_next", !.it = -1]])
        ELSE IF k = 0
             THEN Commit(session_jobs, colls, [thr EXCEPT ![t] = ScanOver(r)])
             ELSE Commit(session_jobs, colls, [thr EXCEPT ![t] = Visit(r, k)])
    /\ UNCHANGED <<call, fillers, dk_usable, jobs, download_threads, now, nextJob, evicted, nreq>>

\* line 68: the next entry of session_jobs.items().  RuntimeError
\* ("dictionary changed size during iteration") when the dict has another
\* size than it had when the iterator was made; the loop is over when no
\* entry with a key follows in the array; RuntimeError ("dictionary keys
\* changed during iteration") when one follows and the iterator has
\* yielded n0 entries already.
SweepNext(t) ==
    /\ thr[t].pc = "scan_next"
    /\ LET k == NextEntry(session_jobs, IF thr[t].it = -1 THEN 0 ELSE thr[t].it) IN
        IF StoreLen(session_jobs, fillers) # thr[t].n0
        THEN Commit(session_jobs, colls, [thr EXCEPT ![t] = Fault(thr[t])])
        ELSE IF k = 0
             THEN Commit(session_jobs, colls, [thr EXCEPT ![t] = ScanOver(thr[t])])
             ELSE \E d \in 0..LateFillers(thr[t]) :
                     IF thr[t].left + d = 0
                     THEN Commit(session_jobs, colls, [thr EXCEPT ![t] = Fault(thr[t])])
                     ELSE Commit(session_jobs, colls, [thr EXCEPT ![t] = Visit([thr[t] EXCEPT !.left = thr[t].left + d], k)])
    /\ UNCHANGED <<call, fillers, dk_usable, jobs, download_threads, now, nextJob, evicted, nreq>>

\* line 71-75: the iterator of jobs.items() is made and its first job
\* taken; created_at of that job is compared with the cutoff
SweepJobsIter(t) ==
    /\ thr[t].pc = "scan_jobs"
    /\ LET c == colls[thr[t].ref] IN
        IF c = << >>
        THEN Commit(session_jobs, colls, [thr EXCEPT ![t].pc = "scan_if"])
        ELSE IF Recent(c[1], thr[t].cutoff)
             THEN Commit(session_jobs, colls, [thr EXCEPT ![t] = NextSession(thr[t])])
             ELSE Commit(session_jobs, colls, [thr EXCEPT ![t].pc = "scan_job_next", ![t].m0 = Len(c), ![t].jt = 1])
    /\ UNCHANGED <<call, fillers, dk_usable, jobs, download_threads, now, nextJob, evicted, nreq>>

\* line 71-77: the next job of jobs.items(); RuntimeError when a job was
\* stored in the dict since the iterator was made.  When the jobs are
\* exhausted all_old is still True and the dict is not empty: line 77.
SweepJobNext(t) ==
    /\ thr[t].pc = "scan_job_next"
    /\ LET c == colls[thr[t].ref] IN
        IF Len(c) # thr[t].m0
        THEN Commit(session_jobs, colls, [thr EXCEPT ![t] = Fault(thr[t])])
        ELSE IF thr[t].jt < Len(c)
             THEN IF Recent(c[thr[t].jt + 1], thr[t].cutoff)
                  THEN Commit(session_jobs, colls, [thr EXCEPT ![t] = NextSession(thr[t])])
                  ELSE Commit(session_jobs, colls, [thr EXCEPT ![t].jt = thr[t].jt + 1])
             ELSE Commit(session_jobs, colls, [thr EXCEPT ![t] = NextSession([thr[t] EXCEPT !.rem = Listed(thr[t].rem, thr[t].cur)])])
    /\ UNCHANGED <<call, fillers, dk_usable, jobs, download_threads, now, nextJob, evicted, nreq>>

\* line 76-77, after a loop of line 71 that found the dict empty: all_old
\* is True, and "jobs" is true when a job was stored in the dict since
SweepIf(t) ==
    /\ thr[t].pc = "scan_if"
    /\ IF colls[thr[t].ref] # << >>
       THEN Commit(session_jobs, colls, [thr EXCEPT ![t] = NextSession([thr[t] EXCEPT !.rem = Listed(thr[t].rem, thr[t].cur)])])
       ELSE Commit(session_jobs, colls, [thr EXCEPT ![t] = NextSession(thr[t])])
    /\ UNCHANGED <<call, fillers, dk_usable, jobs, download_threads, now, nextJob, evicted, nreq>>

\* line 79-81: del session_jobs[session_id] for each session found old;
\* KeyError when another sweep has removed it already
SweepAgeDelete(t) ==
    /\ thr[t].pc = "age_del"
    /\ thr[t].rem # << >>
    /\ LET s == Head(thr[t].rem) IN
        IF Has(session_jobs, s)
        THEN Commit(Del(session_jobs, s), colls, [thr EXCEPT ![t].rem = Tail(thr[t].rem)]) /\ evicted' = evicted \cup {s}
        ELSE Commit(session_jobs, colls, [thr EXCEPT ![t] = Fault(thr[t])]) /\ UNCHANGED evicted
    /\ UNCHANGED <<call, fillers, dk_usable, jobs, download_threads, now, nextJob, nreq>>

\* line 84: if len(session_jobs) > MAX_SESSIONS
SweepCapTest(t) ==
    /\ thr[t].pc = "age_del"
    /\ thr[t].rem = << >>
    /\ Commit(session_jobs, colls, [thr EXCEPT ![t].pc = IF StoreLen(session_jobs, fillers) > MAX_SESSIONS THEN "cap_keys" ELSE "body"])
    /\ UNCHANGED <<call, fillers, dk_usable, jobs, download_threads, now, nextJob, evicted, nreq>>

\* sorted(keys): the keys in ascending order
RECURSIVE SortedKeys(_)
SortedKeys(K) == IF K = {} THEN << >> ELSE LET m == CHOOSE x \in K : \A y \in K : x <= y IN <<m>> \o SortedKeys(K \ {m})

\* line 85: sorted(session_jobs.keys())
SweepCapKeys(t) ==
    /\ thr[t].pc = "cap_keys"
    /\ Commit(session_jobs, colls, [thr EXCEPT ![t].pc = "cap_len", ![t].rem = SortedKeys(Keys(session_jobs)) \o FillerKeys(fillers)])
    /\ UNCHANGED <<call, fillers, dk_usable, jobs, download_threads, now, nextJob, evicted, nreq>>

Min(a, b) == IF a < b THEN a ELSE b

Max(a, b) == IF a > b THEN a ELSE b

\* a slice that keeps the last n keys
OldestFromTheEnd(keys, n) == IF n >= 0 THEN SubSeq(keys, Len(keys) - Min(n, Len(keys)) + 1, Len(keys)) ELSE SubSeq(keys, Min(Len(keys), 0 - n) + 1, Len(keys))

\* line 85: keys[:n], the first n keys when n >= 0, all but the last -n
\* keys when n < 0
Oldest(keys, n) == IF n >= 0 THEN SubSeq(keys, 1, Min(n, Len(keys))) ELSE SubSeq(keys, 1, Max(Len(keys) + n, 0))

\* line 85: the slice [:len(session_jobs) - MAX_SESSIONS] of the sorted
\* keys, with the length the dict has by now
SweepCapLen(t) ==
    /\ thr[t].pc = "cap_len"
    /\ LET old == Oldest(thr[t].rem, StoreLen(session_jobs, fillers) - MAX_SESSIONS) IN
        Commit(session_jobs, colls, [thr EXCEPT ![t].pc = IF old = << >> THEN "body" ELSE "cap_del", ![t].rem = old])
    /\ UNCHANGED <<call, fillers, dk_usable, jobs, download_threads, now, nextJob, evicted, nreq>>

\* line 86-87: del session_jobs[session_id] for each of the oldest keys
SweepCapDelete(t) ==
    /\ thr[t].pc = "cap_del"
    /\ LET s == Head(thr[t].rem)
           th == [thr EXCEPT ![t].rem = Tail(thr[t].rem), ![t].pc = IF Len(thr[t].rem) = 1 THEN "body" ELSE "cap_del"] IN
        IF ~HasKey(session_jobs, fillers, s)
        THEN Commit(session_jobs, colls, [thr EXCEPT ![t] = Fault(thr[t])]) /\ UNCHANGED <<evicted, fillers>>
        ELSE IF IsFiller(s)
             THEN Commit(session_jobs, colls, th) /\ fillers' = fillers - 1 /\ UNCHANGED evicted
             ELSE Commit(Del(session_jobs, s), colls, th) /\ evicted' = evicted \cup {s} /\ UNCHANGED fillers
    /\ UNCHANGED <<call, dk_usable, jobs, download_threads, now, nextJob, nreq>>

\* line 329-339: the body is read once the sweep is over; without a url
\* that validate_url accepts the route answers 400
StartRejected(t) ==
    /\ thr[t].pc = "body"
    /\ Commit(session_jobs, colls, [thr EXCEPT ![t].pc = "ret", ![t].code = 400])
    /\ UNCHANGED <<call, fillers, dk_usable, jobs, download_threads, now, nextJob, evicted, nreq>>

\* line 332-335: a JSON body that is not an object but holds 'url' (the
\* list ["url"], a string with url in it) passes the test of line 332, and
\* data['url'] raises TypeError
StartBadBody(t) ==
    /\ thr[t].pc = "body"
    /\ Commit(session_jobs, colls, [thr EXCEPT ![t] = Fault(thr[t])])
    /\ UNCHANGED <<call, fillers, dk_usable, jobs, download_threads, now, nextJob, evicted, nreq>>

\* --------------------------------- SessionDownloadManager.start_download
\* line 104-107: job_id = str(uuid.uuid4()), an id never used before, and
\* the test "session_id not in session_jobs"
StartCheck(t) ==
    /\ thr[t].pc = "body"
    /\ nextJob <= MaxJobs
    /\ Commit(session_jobs, colls, [thr EXCEPT ![t].jid = nextJob, ![t].pc = IF Has(session_jobs, thr[t].sid) THEN "sd_stamp" ELSE "sd_new"])
    /\ nextJob' = nextJob + 1
    /\ UNCHANGED <<call, fillers, dk_usable, jobs, download_threads, now, evicted, nreq>>

\* line 108 / line 99: session_jobs[session_id] = {}
StoreEmpty(sj, th, s) == Put(sj, dk_usable, s, NewColl(sj, th))

StartNewSession(t) ==
    /\ thr[t].pc = "sd_new"
    /\ Commit(StoreEmpty(session_jobs, thr, thr[t].sid), colls, [thr EXCEPT ![t].pc = "sd_stamp"])
    /\ dk_usable' = UsableAfterPut(session_jobs, dk_usable, StoreLen(session_jobs, fillers), thr[t].sid)
    /\ UNCHANGED <<call, fillers, jobs, download_threads, now, nextJob, evicted, nreq>>

\* line 112-126: the job dict is built before it is stored; line 117 reads
\* the clock for created_at
StartStamp(t) ==
    /\ thr[t].pc = "sd_stamp"
    /\ Commit(session_jobs, colls, [thr EXCEPT ![t].pc = "sd_insert", ![t].clk = now])
    /\ UNCHANGED <<call, fillers, dk_usable, jobs, download_threads, now, nextJob, evicted, nreq>>

\* line 111: the job dict is stored under job_id
InsertJob(cl, c, j) == [cl EXCEPT ![c] = Append(cl[c], j)]

\* line 111: session_jobs[session_id][job_id] = {...}; KeyError when a
\* sweep removed the session since line 107-108
StartInsert(t) ==
    /\ thr[t].pc = "sd_insert"
    /\ IF Has(session_jobs, thr[t].sid)
       THEN /\ Commit(session_jobs, InsertJob(colls, Get(session_jobs, thr[t].sid), thr[t].jid), [thr EXCEPT ![t].pc = "sd_thread", ![t].clk = 0])
            /\ jobs' = [jobs EXCEPT ![thr[t].jid] = NewJob(thr[t].jid, thr[t].sid, thr[t].clk)]
       ELSE /\ Commit(session_jobs, colls, [thr EXCEPT ![t] = Fault(thr[t])])
            /\ UNCHANGED jobs
    /\ UNCHANGED <<call, fillers, dk_usable, download_threads, now, nextJob, evicted, nreq>>

\* start_download going on without line 129-135
StartThreadNoWorker(t) ==
    /\ thr[t].pc = "sd_thread"
    /\ Commit(session_jobs, colls, [thr EXCEPT ![t].pc = "sd_return"])
    /\ UNCHANGED <<call, fillers, dk_usable, jobs, download_threads, now, nextJob, evicted, nreq>>

\* line 129-135: the worker thread is made and started; it runs from now
\* on, whether or not start_download has returned
StartThread(t) ==
    /\ thr[t].pc = "sd_thread"
    /\ download_threads' = [download_threads EXCEPT ![thr[t].jid].pc = "resolving"]
    /\ Commit(session_jobs, colls, [thr EXCEPT ![t].pc = "sd_return"])
    /\ UNCHANGED <<call, fillers, dk_usable, jobs, now, nextJob, evicted, nreq>>

\* line 137 and 346-354: start_download returns job_id and the route
\* answers 200 with it
StartReturn(t) ==
    /\ thr[t].pc = "sd_return"
    /\ download_threads' = [download_threads EXCEPT ![thr[t].jid].returned = TRUE, ![thr[t].jid].known = TRUE]
    /\ Commit(session_jobs, colls, [thr EXCEPT ![t].pc = "ret", ![t].code = 200, ![t].val = thr[t].jid])
    /\ UNCHANGED <<call, fillers, dk_usable, jobs, now, nextJob, evicted, nreq>>

\* the response has been sent; the thread is free for the next request
Return(t) ==
    /\ thr[t].pc = "ret"
    /\ Commit(session_jobs, colls, [thr EXCEPT ![t] = Idle])
    /\ UNCHANGED <<call, fillers, dk_usable, jobs, download_threads, now, nextJob, evicted, nreq>>

\* ===================================================== _get_format_selector
\* quality is a string; format_id is None or a string (Some(""), Some("137"))
\* a selector that looks at the quality keywords first
_get_format_selector_keywords_first(quality, format_id) == IF quality = "audio" THEN "bestaudio/best" ELSE IF quality = "best" THEN "best" ELSE IF format_id # None /\ format_id # Some("") THEN format_id[1] ELSE quality

\* line 238-249; "if format_id" is false for None and for the empty string
_get_format_selector(quality, format_id) == IF format_id # None /\ format_id # Some("") THEN format_id[1] ELSE IF quality = "audio" THEN "bestaudio/best" ELSE IF quality = "best" THEN "best" ELSE quality

\* =========================== SessionDownloadManager._process_download_link
\* a character class that lost its backslash
IllegalCharsNoBackslash == {"<", ">", ":", "\"", "/", "|", "?", "*"}

\* line 254: the characters re.sub removes
IllegalChars == {"<", ">", ":", "\"", "/", "\\", "|", "?", "*"}

Take(q, n) == SubSeq(q, 1, IF Len(q) < n THEN Len(q) ELSE n)

\* the index of the last "." of q, 0 when there is none
LastDot(q) == IF InSeq(q, ".") THEN CHOOSE i \in DOMAIN q : q[i] = "." /\ \A k \in DOMAIN q : q[k] = "." => k <= i ELSE 0

\* a truncation that splits the name at its first dot, as split('.', 1)
\* would
TruncateFirstDot(f) == LET d == (IF InSeq(f, ".") THEN CHOOSE i \in DOMAIN f : f[i] = "." /\ \A k \in DOMAIN f : f[k] = "." => i <= k ELSE 0) name == IF d = 0 THEN f ELSE SubSeq(f, 1, d - 1) ext == IF d = 0 THEN << >> ELSE SubSeq(f, d + 1, Len(f)) IN Take(name, 90) \o (IF ext # << >> THEN <<".">> \o ext ELSE << >>)

\* line 256-258: name, ext = rsplit('.', 1); name[:90] + '.' + ext
Truncate(f) == LET d == LastDot(f) name == IF d = 0 THEN f ELSE SubSeq(f, 1, d - 1) ext == IF d = 0 THEN << >> ELSE SubSeq(f, d + 1, Len(f)) IN Take(name, 90) \o (IF ext # << >> THEN <<".">> \o ext ELSE << >>)

\* line 251-259
_sanitize_filename(filename) == LET f == SelectSeq(filename, LAMBDA ch : ch \notin IllegalChars) IN IF Len(f) > 100 THEN Truncate(f) ELSE f

\* line 196-205: info.get('url'), else the url of the first format that
\* has one; None when there is none
\* "if download_url", "if fmt.get('url')": None and '' are false
Truthy(u) == u # None /\ u # Some("")

\* a search that keeps the last candidate with a url
RECURSIVE LastUrl(_)
LastUrl(formats) == IF formats = << >> THEN None ELSE IF LastUrl(Tail(formats)) # None THEN LastUrl(Tail(formats)) ELSE IF Truthy(Head(formats)) THEN Head(formats) ELSE None

RECURSIVE FirstUrl(_)
FirstUrl(formats) == IF formats = << >> THEN None ELSE IF Truthy(Head(formats)) THEN Head(formats) ELSE FirstUrl(Tail(formats))

SelectUrl(info) == IF Truthy(info.url) THEN info.url ELSE FirstUrl(info.formats)

\* line 196-213: the worker goes on to the write-back with the url selected,
\* or line 207-208 raises into the handler of line 229
Resolved(info) == IF SelectUrl(info) # None THEN [pc |-> "update", url |-> SelectUrl(info), err |-> None] ELSE [pc |-> "except", url |-> None, err |-> Some("No se pudo obtener URL de descarga")]

\* the success write-back split field by field, its first write alone
ReadyUpdateStatusFirst(job, url, t) == [job EXCEPT !.status = "ready"]

\* line 216-225: the dict passed to update on success
ReadyUpdate(job, url, t) == [job EXCEPT !.status = "ready", !.progress = 100, !.download_url = url, !.filename = Some(_sanitize_filename(Title \o <<".">> \o Ext)), !.file_size = 7, !.title = Title, !.duration = 9, !.completed_at = Some(t)]

\* a failure update that also stamps created_at
ErrorUpdateRestamps(job, msg, t) == [job EXCEPT !.status = "error", !.error = msg, !.completed_at = Some(t), !.created_at = t]

\* line 231-235: the dict passed to update on failure
ErrorUpdate(job, msg, t) == [job EXCEPT !.status = "error", !.error = msg, !.completed_at = Some(t)]

\* session_jobs[session_id][job_id] succeeds
Stored(j, s) == Has(session_jobs, s) /\ InSeq(colls[Get(session_jobs, s)], j)

\* line 191-213: ydl.extract_info returns info and a url is selected, or
\* line 207-208 raises because there is none
ResolveReturns(j, info) ==
    /\ download_threads[j].pc = "resolving"
    /\ download_threads' = [download_threads EXCEPT ![j].pc = Resolved(info).pc, ![j].url = Resolved(info).url, ![j].err = Resolved(info).err]
    /\ UNCHANGED <<call, fillers, dk_usable, session_jobs, colls, jobs, thr, now, nextJob, evicted, nreq>>

\* line 193: ydl.extract_info raises
ResolveRaises(j) ==
    /\ download_threads[j].pc = "resolving"
    /\ download_threads' = [download_threads EXCEPT ![j].pc = "except", ![j].err = Some("DownloadError")]
    /\ UNCHANGED <<call, fillers, dk_usable, session_jobs, colls, jobs, thr, now, nextJob, evicted, nreq>>

\* line 216: session_jobs[session_id][job_id], the job dict whose update
\* method is about to be called.  KeyError, caught at line 229, when the
\* job is not in the store.
WorkerLookup(j) ==
    /\ download_threads[j].pc = "update"
    /\ IF Stored(j, jobs[j].session_id)
       THEN download_threads' = [download_threads EXCEPT ![j].pc = "upd_args"]
       ELSE download_threads' = [download_threads EXCEPT ![j].pc = "except", ![j].url = None, ![j].err = Some("KeyError")]
    /\ UNCHANGED <<call, fillers, dk_usable, session_jobs, colls, jobs, thr, now, nextJob, evicted, nreq>>

\* line 217-225: the argument of update is built; line 224 reads the clock
\* for completed_at
WorkerStamp(j) ==
    /\ download_threads[j].pc = "upd_args"
    /\ download_threads' = [download_threads EXCEPT ![j].pc = "upd_call", ![j].clk = now]
    /\ UNCHANGED <<call, fillers, dk_usable, session_jobs, colls, jobs, thr, now, nextJob, evicted, nreq>>

\* line 216-225: dict.update writes all the keys in one step, into the job
\* dict found at line 216, whether or not the store still holds it
WorkerUpdate(j) ==
    /\ download_threads[j].pc = "upd_call"
    /\ jobs' = [jobs EXCEPT ![j] = ReadyUpdate(jobs[j], download_threads[j].url, download_threads[j].clk)]
    /\ download_threads' = [download_threads EXCEPT ![j].pc = "done", ![j].url = None, ![j].clk = 0]
    /\ UNCHANGED <<call, fillers, dk_usable, session_jobs, colls, thr, now, nextJob, evicted, nreq>>

\* line 229-231: the handler looks up session_jobs[session_id][job_id]; a
\* KeyError here is raised out of the thread's target
ExceptLookup(j) ==
    /\ download_threads[j].pc = "except"
    /\ IF Stored(j, jobs[j].session_id)
       THEN download_threads' = [download_threads EXCEPT ![j].pc = "exc_args"]
       ELSE download_threads' = [download_threads EXCEPT ![j].pc = "crashed", ![j].err = None]
    /\ UNCHANGED <<call, fillers, dk_usable, session_jobs, colls, jobs, thr, now, nextJob, evicted, nreq>>

\* line 232-235: the argument of update is built; line 234 reads the clock
ExceptStamp(j) ==
    /\ download_threads[j].pc = "exc_args"
    /\ download_threads' = [download_threads EXCEPT ![j].pc = "exc_call", ![j].clk = now]
    /\ UNCHANGED <<call, fillers, dk_usable, session_jobs, colls, jobs, thr, now, nextJob, evicted, nreq>>

\* line 231-235: dict.update writes status, error and completed_at
ExceptUpdate(j) ==
    /\ download_threads[j].pc = "exc_call"
    /\ jobs' = [jobs EXCEPT ![j] = ErrorUpdate(jobs[j], download_threads[j].err, download_threads[j].clk)]
    /\ download_threads' = [download_threads EXCEPT ![j].pc = "done", ![j].err = None, ![j].clk = 0]
    /\ UNCHANGED <<call, fillers, dk_usable, session_jobs, colls, thr, now, nextJob, evicted, nreq>>

Worker(j) == \/ \E info \in ResolverInfos : ResolveReturns(j, info)
             \/ ResolveRaises(j)
             \/ WorkerLookup(j) \/ WorkerStamp(j) \/ WorkerUpdate(j)
             \/ ExceptLookup(j) \/ ExceptStamp(j) \/ ExceptUpdate(j)

\* ================== get_session_jobs and the lookups of the other routes
\* A request thread takes up GET /status/j, GET /download/j, DELETE /cancel/j
\* or GET /jobs with session header s and runs line 98 of get_session_jobs,
\* the test "session_id not in session_jobs".  j is a job id a client can
\* know, one that a response has carried (0 for GET /jobs, which takes
\* none).
LookupOps == {"status", "download", "cancel", "jobs"}

GsjCheck(t, op, s, j) ==
    /\ FirstFree(t)
    /\ nreq < MaxRequests
    /\ IF op = "jobs" THEN j = 0 ELSE j \in JobIds /\ download_threads[j].known
    /\ nreq' = nreq + 1
    /\ Commit(session_jobs, colls, [thr EXCEPT ![t] = [Idle EXCEPT !.op = op, !.sid = s, !.jid = j, !.pc = IF Has(session_jobs, s) THEN "gsj_load" ELSE "gsj_new", !.pre = IF op # "cancel" THEN None ELSE IF Stored(j, s) THEN jobs[j] ELSE NoJob]])
    /\ UNCHANGED <<call, fillers, dk_usable, jobs, download_threads, now, nextJob, evicted>>

\* get_session_jobs that stores nothing for an unknown session
GsjNewNoInsert(t) ==
    /\ thr[t].pc = "gsj_new"
    /\ Commit(session_jobs, colls, [thr EXCEPT ![t].pc = "gsj_load"])
    /\ UNCHANGED <<call, fillers, dk_usable, jobs, download_threads, now, nextJob, evicted, nreq>>

\* line 99: session_jobs[session_id] = {}
GsjNew(t) ==
    /\ thr[t].pc = "gsj_new"
    /\ Commit(StoreEmpty(session_jobs, thr, thr[t].sid), colls, [thr EXCEPT ![t].pc = "gsj_load"])
    /\ dk_usable' = UsableAfterPut(session_jobs, dk_usable, StoreLen(session_jobs, fillers), thr[t].sid)
    /\ UNCHANGED <<call, fillers, jobs, download_threads, now, nextJob, evicted, nreq>>

\* line 100: return session_jobs[session_id]; KeyError when a sweep removed
\* the session since line 98-99 (no route catches it: the response is 500)
GsjLoad(t) ==
    /\ thr[t].pc = "gsj_load"
    /\ IF Has(session_jobs, thr[t].sid)
       THEN Commit(session_jobs, colls, [thr EXCEPT ![t].ref = Get(session_jobs, thr[t].sid), ![t].pc = thr[t].op])
       ELSE Commit(session_jobs, colls, [thr EXCEPT ![t] = Fault(thr[t])])
    /\ UNCHANGED <<call, fillers, dk_usable, jobs, download_threads, now, nextJob, evicted, nreq>>

\* line 264: session_data.get(job_id, None), the job dict or None
get_job_status(session_data, job_id) == IF InSeq(session_data, job_id) THEN Some(job_id) ELSE None

\* line 380-382: the 404 of GET /status
NotFound(r) == [r EXCEPT !.pc = "ret", !.ref = NoRef, !.code = 404, !.val = None, !.n0 = 0, !.it = 0, !.left = 0]

\* line 264 and 365-386, GET /status: the job dict as JSON when the lookup
\* finds one (the dict is read when the response is built; a collection
\* only grows while a thread holds it, so the lookup has the same result
\* then); else line 367-368, and the search of line 371 is still to run
StatusRead(t) ==
    /\ thr[t].pc = "status"
    /\ LET job == get_job_status(colls[thr[t].ref], thr[t].jid) IN
        IF job = None
        THEN Commit(session_jobs, colls, [thr EXCEPT ![t].pc = "st_iter", ![t].ref = NoRef])
        ELSE Commit(session_jobs, colls, [thr EXCEPT ![t].pc = "ret", ![t].ref = NoRef, ![t].code = 200, ![t].val = Some(jobs[job[1]])])
    /\ UNCHANGED <<call, fillers, dk_usable, jobs, download_threads, now, nextJob, evicted, nreq>>

\* line 371-374: the entry at position i is tested, "job_id in jobs"; the
\* loop breaks when it holds the job, and the route answers 404 with or
\* without the warning of line 376
StatusVisit(r, i) == IF InSeq(colls[session_jobs[i][2]], r.jid) THEN NotFound(r) ELSE [r EXCEPT !.pc = "st_next", !.it = i, !.left = r.left - 1]

\* line 371: the iterator of session_jobs.items() is made and its first
\* entry taken (the filler sessions come first and hold no job)
StatusScanIter(t) ==
    /\ thr[t].pc = "st_iter"
    /\ LET r == [thr[t] EXCEPT !.n0 = StoreLen(session_jobs, fillers), !.left = Used(session_jobs)]
           k == NextEntry(session_jobs, 0) IN
        IF fillers > 0
        THEN Commit(session_jobs, colls, [thr EXCEPT ![t] = [r EXCEPT !.pc = "st_next", !.it = -1]])
        ELSE IF k = 0
             THEN Commit(session_jobs, colls, [thr EXCEPT ![t] = NotFound(r)])
             ELSE Commit(session_jobs, colls, [thr EXCEPT ![t] = StatusVisit(r, k)])
    /\ UNCHANGED <<call, fillers, dk_usable, jobs, download_threads, now, nextJob, evicted, nreq>>

\* line 371: the next entry, as at line 68; no handler of the route
\* catches the RuntimeError of the iterator
StatusScanNext(t) ==
    /\ thr[t].pc = "st_next"
    /\ LET k == NextEntry(session_jobs, IF thr[t].it = -1 THEN 0 ELSE thr[t].it) IN
        IF StoreLen(session_jobs, fillers) # thr[t].n0
        THEN Commit(session_jobs, colls, [thr EXCEPT ![t] = Fault(thr[t])])
        ELSE IF k = 0
             THEN Commit(session_jobs, colls, [thr EXCEPT ![t] = NotFound(thr[t])])
             ELSE \E d \in 0..LateFillers(thr[t]) :
                     IF thr[t].left + d = 0
                     THEN Commit(session_jobs, colls, [thr EXCEPT ![t] = Fault(thr[t])])
                     ELSE Commit(session_jobs, colls, [thr EXCEPT ![t] = StatusVisit([thr[t] EXCEPT !.left = thr[t].left + d], k)])
    /\ UNCHANGED <<call, fillers, dk_usable, jobs, download_threads, now, nextJob, evicted, nreq>>

\* line 397: if job['status'] != 'ready'
DownloadNotReady(job) == job.status # "ready"

\* line 264 and 391-397, GET /download: 404 when the lookup gives None, 400
\* when the status read at line 397 is not ready.  pre keeps the job dict
\* as it was at that read (NoJob when the lookup gave None).
DownloadStatus(t) ==
    /\ thr[t].pc = "download"
    /\ LET job == get_job_status(colls[thr[t].ref], thr[t].jid) IN
        IF job = None
        THEN Commit(session_jobs, colls, [thr EXCEPT ![t].pc = "ret", ![t].ref = NoRef, ![t].code = 404, ![t].pre = NoJob])
        ELSE IF DownloadNotReady(jobs[job[1]])
             THEN Commit(session_jobs, colls, [thr EXCEPT ![t].pc = "ret", ![t].ref = NoRef, ![t].code = 400, ![t].pre = jobs[job[1]]])
             ELSE Commit(session_jobs, colls, [thr EXCEPT ![t].pc = "dl_url", ![t].ref = NoRef, ![t].pre = jobs[job[1]]])
    /\ UNCHANGED <<call, fillers, dk_usable, jobs, download_threads, now, nextJob, evicted, nreq>>

\* line 399-411: download_url, filename and file_size are read from the job
\* dict (no thread writes them once the status is ready); 500 when
\* download_url is None or empty
DownloadRespond(t) ==
    /\ thr[t].pc = "dl_url"
    /\ LET job == jobs[thr[t].jid] IN
        IF job.download_url = None \/ job.download_url = Some("")
        THEN Commit(session_jobs, colls, [thr EXCEPT ![t].pc = "ret", ![t].code = 500])
        ELSE Commit(session_jobs, colls, [thr EXCEPT ![t].pc = "ret", ![t].code = 200, ![t].val = [download_url |-> job.download_url, filename |-> job.filename, file_size |-> job.file_size]])
    /\ UNCHANGED <<call, fillers, dk_usable, jobs, download_threads, now, nextJob, evicted, nreq>>

\* line 269: if job_id in session_data; line 273 and 429: return False, the
\* route answers with an error body
CancelFind(t) ==
    /\ thr[t].pc = "cancel"
    /\ IF InSeq(colls[thr[t].ref], thr[t].jid)
       THEN Commit(session_jobs, colls, [thr EXCEPT ![t].pc = "c_status"])
       ELSE Commit(session_jobs, colls, [thr EXCEPT ![t].pc = "ret", ![t].ref = NoRef, ![t].code = 200, ![t].val = Some(FALSE)])
    /\ UNCHANGED <<call, fillers, dk_usable, jobs, download_threads, now, nextJob, evicted, nreq>>

\* a cancellation that also resets the progress
CancelStatusResets(job) == [job EXCEPT !.status = "cancelled", !.progress = 0]

\* line 270: session_data[job_id]['status'] = 'cancelled'
CancelStatus(job) == [job EXCEPT !.status = "cancelled"]

CancelSetStatus(t) ==
    /\ thr[t].pc = "c_status"
    /\ jobs' = [jobs EXCEPT ![thr[t].jid] = CancelStatus(jobs[thr[t].jid])]
    /\ Commit(session_jobs, colls, [thr EXCEPT ![t].pc = "c_stamp"])
    /\ UNCHANGED <<call, fillers, dk_usable, download_threads, now, nextJob, evicted, nreq>>

\* line 271: the right-hand side, datetime.now().isoformat(), is evaluated
\* before the store
CancelStamp(t) ==
    /\ thr[t].pc = "c_stamp"
    /\ Commit(session_jobs, colls, [thr EXCEPT ![t].pc = "c_completed", ![t].clk = now])
    /\ UNCHANGED <<call, fillers, dk_usable, jobs, download_threads, now, nextJob, evicted, nreq>>

\* line 271-272 and 427: completed_at is set, cancel_job returns True
CancelSetCompleted(t) ==
    /\ thr[t].pc = "c_completed"
    /\ jobs' = [jobs EXCEPT ![thr[t].jid].completed_at = Some(thr[t].clk)]
    /\ Commit(session_jobs, colls, [thr EXCEPT ![t].pc = "ret", ![t].ref = NoRef, ![t].clk = 0, ![t].code = 200, ![t].val = Some(TRUE)])
    /\ UNCHANGED <<call, fillers, dk_usable, download_threads, now, nextJob, evicted, nreq>>

\* line 278: list(session_data.values()), the job dicts in insertion order;
\* line 444: total is the length of that list.  pre keeps the list the
\* store holds for the session at that moment (None when it holds none).
ListValues(t) ==
    /\ thr[t].pc = "jobs"
    /\ Commit(session_jobs, colls, [thr EXCEPT ![t].pc = IF colls[thr[t].ref] = << >> THEN "jsonify" ELSE "count", ![t].ref = NoRef, ![t].rem = colls[thr[t].ref], ![t].val = [total |-> Len(colls[thr[t].ref]), active |-> 0], ![t].pre = IF Has(session_jobs, thr[t].sid) THEN Some(colls[Get(session_jobs, thr[t].sid)]) ELSE None])
    /\ UNCHANGED <<call, fillers, dk_usable, jobs, download_threads, now, nextJob, evicted, nreq>>

\* line 445: one turn of the comprehension, which reads the status of the
\* next job dict of the list and keeps the dict when it is 'processing'
ListCount(t) ==
    /\ thr[t].pc = "count"
    /\ LET j == thr[t].rem[thr[t].jt + 1] IN
        Commit(session_jobs, colls, [thr EXCEPT ![t].pc = IF thr[t].jt + 1 = Len(thr[t].rem) THEN "jsonify" ELSE "count", ![t].jt = IF thr[t].jt + 1 = Len(thr[t].rem) THEN 0 ELSE thr[t].jt + 1, ![t].val.active = IF jobs[j].status = "processing" THEN thr[t].val.active + 1 ELSE thr[t].val.active])
    /\ UNCHANGED <<call, fillers, dk_usable, jobs, download_threads, now, nextJob, evicted, nreq>>

\* line 440-447: jsonify serialises the dicts listed as they are by then,
\* in one call of the encoder; the response carries their ids to the client
ListRespond(t) ==
    /\ thr[t].pc = "jsonify"
    /\ LET js == [i \in DOMAIN thr[t].rem |-> jobs[thr[t].rem[i]]] IN
        Commit(session_jobs, colls, [thr EXCEPT ![t].pc = "ret", ![t].rem = << >>, ![t].code = 200, ![t].val = [jobs |-> js, total |-> thr[t].val.total, active |-> thr[t].val.active]])
    /\ download_threads' = [j \in JobIds |-> IF InSeq(thr[t].rem, j) THEN [download_threads[j] EXCEPT !.known = TRUE] ELSE download_threads[j]]
    /\ UNCHANGED <<call, fillers, dk_usable, jobs, now, nextJob, evicted, nreq>>

LookupRoute(t) == \/ \E op \in LookupOps, s \in SessionIds, j \in 0..MaxJobs : GsjCheck(t, op, s, j)
                  \/ GsjNew(t) \/ GsjLoad(t)
                  \/ StatusRead(t) \/ StatusScanIter(t) \/ StatusScanNext(t)
                  \/ DownloadStatus(t) \/ DownloadRespond(t)
                  \/ CancelFind(t) \/ CancelSetStatus(t) \/ CancelStamp(t) \/ CancelSetCompleted(t)
                  \/ ListValues(t) \/ ListCount(t) \/ ListRespond(t)

\* line 85-87, reached only with more than MAX_SESSIONS sessions stored
CapacityRule(t) == SweepCapKeys(t) \/ SweepCapLen(t) \/ SweepCapDelete(t)

\* line 62-87, cleanup_old_sessions as line 327 calls it
SweepRoute(t) == \/ \E s \in SessionIds : SweepCutoff(t, s)
                 \/ SweepIter(t) \/ SweepNext(t) \/ SweepJobsIter(t) \/ SweepJobNext(t) \/ SweepIf(t)
                 \/ SweepAgeDelete(t) \/ SweepCapTest(t)
                 \/ CapacityRule(t)

\* line 315-359: the sweep, then the body and start_download
StartRoute(t) == \/ SweepRoute(t)
                 \/ StartRejected(t) \/ StartBadBody(t)
                 \/ StartCheck(t) \/ StartNewSession(t) \/ StartStamp(t) \/ StartInsert(t) \/ StartThread(t) \/ StartReturn(t)

\* The registry from the empty store of a process that has just started,
\* with NumSessions session ids in play.
Next == \/ Tick
        \/ \E t \in Threads : StartRoute(t) \/ LookupRoute(t) \/ Return(t)
        \/ \E j \in JobIds : Worker(j)

Spec == Init /\ [][Next]_vars

\* ============================== the registry under POST /start alone
\* Every request is a POST /start: sweeps, job creations and workers.
StartNext == \/ Tick
             \/ \E t \in Threads : StartRoute(t) \/ Return(t)
             \/ \E j \in JobIds : Worker(j)

\* The store holds MAX_SESSIONS sessions, each made by the lookup of a
\* client that never started a download (line 99), and no session of the
\* clients of the behaviour.
StartInit ==
    /\ session_jobs = << >>
    /\ fillers = MAX_SESSIONS
    /\ dk_usable = Room(MAX_SESSIONS)
    /\ colls = [c \in CollIds |-> << >>]
    /\ jobs = [j \in JobIds |-> NoJob]
    /\ download_threads = [j \in JobIds |-> NoWorker]
    /\ thr = [t \in Threads |-> Idle]
    /\ now = 0
    /\ nextJob = 1
    /\ evicted = {}
    /\ nreq = 0
    /\ call = NoCall

\* The store of a process that has run for long: sweeps have removed the
\* sessions stored first, whose dummies fill the array up to its last
\* slot, where session 1 holds one job whose worker is waiting for the
\* resolver.  The next new key finds no usable slot.
AgedInit ==
    /\ session_jobs = [i \in 1..Room(0) |-> IF i < Room(0) THEN Dummy ELSE <<1, 1>>]
    /\ fillers = 0
    /\ dk_usable = 0
    /\ colls = [c \in CollIds |-> IF c = 1 THEN <<1>> ELSE << >>]
    /\ jobs = [j \in JobIds |-> IF j = 1 THEN NewJob(1, 1, 0) ELSE NoJob]
    /\ download_threads = [j \in JobIds |-> IF j = 1 THEN [NoWorker EXCEPT !.pc = "resolving", !.returned = TRUE, !.known = TRUE] ELSE NoWorker]
    /\ thr = [t \in Threads |-> Idle]
    /\ now = 0
    /\ nextJob = 2
    /\ evicted = {}
    /\ nreq = 0
    /\ call = NoCall

StartSpec == (StartInit \/ AgedInit) /\ [][StartNext]_vars

\* ===================== the first use of a session by concurrent requests
\* The store holds MAX_SESSIONS sessions of other clients, made by their
\* lookups, and a GET /jobs for session 1 has just found the session absent
\* (line 98): the requests of the behaviour meet it before it runs line 99.
RaceInit ==
    /\ session_jobs = << >>
    /\ fillers = MAX_SESSIONS
    /\ dk_usable = Room(MAX_SESSIONS)
    /\ colls = [c \in CollIds |-> << >>]
    /\ jobs = [j \in JobIds |-> NoJob]
    /\ download_threads = [j \in JobIds |-> NoWorker]
    /\ thr = [t \in Threads |-> IF t = NumThreads THEN [Idle EXCEPT !.op = "jobs", !.pc = "gsj_new", !.sid = 1] ELSE Idle]
    /\ now = 0
    /\ nextJob = 1
    /\ evicted = {}
    /\ nreq = 0
    /\ call = NoCall

RaceSpec == RaceInit /\ [][Next]_vars

\* ================ the registry after one POST /start has been answered
\* The store as the first POST /start of a client leaves it: after
\* MAX_SESSIONS - 1 sessions that the lookups of other clients made, one
\* session with one job, whose worker is waiting for the resolver.
WarmInit ==
    /\ session_jobs = <<<<1, 1>>>>
    /\ fillers = MAX_SESSIONS - 1
    /\ dk_usable = Room(MAX_SESSIONS)
    /\ colls = [c \in CollIds |-> IF c = 1 THEN <<1>> ELSE << >>]
    /\ jobs = [j \in JobIds |-> IF j = 1 THEN NewJob(1, 1, 0) ELSE NoJob]
    /\ download_threads = [j \in JobIds |-> IF j = 1 THEN [NoWorker EXCEPT !.pc = "resolving", !.returned = TRUE, !.known = TRUE] ELSE NoWorker]
    /\ thr = [t \in Threads |-> Idle]
    /\ now = 0
    /\ nextJob = 2
    /\ evicted = {}
    /\ nreq = 0
    /\ call = NoCall

WarmSpec == WarmInit /\ [][Next]_vars

\* ============ the registry when a client asks for another client's job
\* The store as in WarmInit, but the session with the job is session 2:
\* no request has named session 1 yet, whose key sorts before every other
\* key of the store.
IsolationInit ==
    /\ session_jobs = <<<<2, 1>>>>
    /\ fillers = MAX_SESSIONS - 1
    /\ dk_usable = Room(MAX_SESSIONS)
    /\ colls = [c \in CollIds |-> IF c = 1 THEN <<1>> ELSE << >>]
    /\ jobs = [j \in JobIds |-> IF j = 1 THEN NewJob(1, 2, 0) ELSE NoJob]
    /\ download_threads = [j \in JobIds |-> IF j = 1 THEN [NoWorker EXCEPT !.pc = "resolving", !.returned = TRUE, !.known = TRUE] ELSE NoWorker]
    /\ thr = [t \in Threads |-> Idle]
    /\ now = 0
    /\ nextJob = 2
    /\ evicted = {}
    /\ nreq = 0
    /\ call = NoCall

IsolationSpec == IsolationInit /\ [][Next]_vars

\* ============================ one run of cleanup_old_sessions on its own
\* A store the registry can have built: distinct session keys in any
\* insertion order, every job in the collection of its session, created
\* just over, exactly, or just under SESSION_TIMEOUT_HOURS ago; before
\* them no, MAX_SESSIONS - 1 or MAX_SESSIONS + 1 filler sessions.
SweepSessionIds == 1..NumSweepSessions

SweepStores == {q \in UNION {[1..n -> SweepSessionIds] : n \in 0..NumSweepSessions} : \A i \in DOMAIN q, k \in DOMAIN q : i # k => q[i] # q[k]}

CreatedAts(t) == {t - SESSION_TIMEOUT_HOURS - 1, t - SESSION_TIMEOUT_HOURS, t - SESSION_TIMEOUT_HOURS + 1}

SweepFillers == {0, MAX_SESSIONS - 1, MAX_SESSIONS + 1}

Reverse(q) == [i \in DOMAIN q |-> q[Len(q) + 1 - i]]

SweepInit ==
    /\ now = MaxClock
    /\ fillers \in SweepFillers
    /\ \E q \in SweepStores, place \in [JobIds -> 0..NumSweepSessions], cr \in [JobIds -> CreatedAts(MaxClock)], rev \in BOOLEAN :
        /\ \A j \in JobIds : place[j] <= Len(q)
        /\ dk_usable = Room(fillers + Len(q))
        /\ session_jobs = [i \in DOMAIN q |-> <<q[i], i>>]
        /\ jobs = [j \in JobIds |-> IF place[j] = 0 THEN NoJob ELSE NewJob(j, q[place[j]], cr[j])]
        /\ colls = [c \in CollIds |-> LET js == SortedKeys({j \in JobIds : place[j] = c}) IN IF rev THEN Reverse(js) ELSE js]
        /\ download_threads = [j \in JobIds |-> IF place[j] = 0 THEN NoWorker ELSE [NoWorker EXCEPT !.pc = "resolving"]]
    /\ thr = [t \in Threads |-> Idle]
    /\ nextJob = MaxJobs + 1
    /\ evicted = {}
    /\ nreq = 0
    /\ call = NoCall

\* line 62-87, run by one request thread with nothing else running
LoneSweep == SweepRoute(1)

SweepSpec == SweepInit /\ [][LoneSweep]_vars

\* ================================== one call of _get_format_selector
\* the quality and format_id a POST /start body can carry (line 341-342)
Qualities == {"best", "audio", "worst", "720p", "137", "bestaudio/best", "Audio", ""}

FormatIds == {None, Some(""), Some("137"), Some("18"), Some("best"), Some("audio"), Some("bestvideo+bestaudio")}

SelectorInit ==
    /\ session_jobs = << >>
    /\ fillers = 0
    /\ dk_usable = Room(0)
    /\ colls = [c \in CollIds |-> << >>]
    /\ jobs = [j \in JobIds |-> NoJob]
    /\ download_threads = [j \in JobIds |-> NoWorker]
    /\ thr = [t \in Threads |-> Idle]
    /\ now = 0
    /\ nextJob = 1
    /\ evicted = {}
    /\ nreq = 0
    /\ \E q \in Qualities, f \in FormatIds : call = [fn |-> "_get_format_selector", quality |-> q, format_id |-> f, result |-> None]

\* line 154: 'format': self._get_format_selector(quality, format_id)
SelectorCall ==
    /\ call.fn = "_get_format_selector"
    /\ call.result = None
    /\ call' = [call EXCEPT !.result = Some(_get_format_selector(call.quality, call.format_id))]
    /\ UNCHANGED <<fillers, dk_usable, session_jobs, colls, jobs, download_threads, thr, now, nextJob, evicted, nreq>>

SelectorSpec == SelectorInit /\ [][SelectorCall]_vars

\* ======================= the url selection of one resolver result
\* every info with an absent, empty or present top-level url and up to
\* MaxFormats candidate formats whose url is absent, empty or present
FormatUrls == {None, Some(""), Some("a"), Some("b")}

CandidateInfos == {[url |-> u, formats |-> f] : u \in {None, Some(""), Some("t")}, f \in UNION {[1..n -> FormatUrls] : n \in 0..MaxFormats}}

CandidateInit ==
    /\ session_jobs = << >>
    /\ fillers = 0
    /\ dk_usable = Room(0)
    /\ colls = [c \in CollIds |-> << >>]
    /\ jobs = [j \in JobIds |-> NoJob]
    /\ download_threads = [j \in JobIds |-> NoWorker]
    /\ thr = [t \in Threads |-> Idle]
    /\ now = 0
    /\ nextJob = 1
    /\ evicted = {}
    /\ nreq = 0
    /\ \E info \in CandidateInfos : call = [fn |-> "select_url", info |-> info, result |-> None]

\* line 196-208 applied to info
CandidateCall ==
    /\ call.fn = "select_url"
    /\ call.result = None
    /\ call' = [call EXCEPT !.result = Some(Resolved(call.info))]
    /\ UNCHANGED <<fillers, dk_usable, session_jobs, colls, jobs, download_threads, thr, now, nextJob, evicted, nreq>>

CandidateSpec == CandidateInit /\ [][CandidateCall]_vars

\* ================================== one call of _sanitize_filename
\* Every name of up to MaxNameLen characters over the illegal characters,
\* a letter and the dot; and the names f"{title}.{ext}" of line 211-213 for
\* titles around the limit of 100 characters (plain, with a dot inside, with
\* an illegal character in front) and extensions that are empty, usual,
\* made of an illegal character only, or long; and long names without dot.
NameChars == {"<", ">", ":", "\"", "/", "\\", "|", "?", "*", "a", "."}

ShortNames == UNION {[1..n -> NameChars] : n \in 0..MaxNameLen}

Rep(ch, n) == [i \in 1..n |-> ch]

TitleLens == 86..101 \cup {MaxTitleLen}

Titles == UNION {{Rep("x", n), <<"x", ".">> \o Rep("x", n - 2), <<"<">> \o Rep("x", n - 1)} : n \in TitleLens}

Exts == {<< >>, <<"m", "p", "4">>, <<"w", "e", "b", "m">>, <<"?">>, Rep("e", 12)}

LongNames == {t \o <<".">> \o e : t \in Titles, e \in Exts} \cup {Rep("x", n) : n \in {100, 101, MaxTitleLen}}

SanitizeInit ==
    /\ session_jobs = << >>
    /\ fillers = 0
    /\ dk_usable = Room(0)
    /\ colls = [c \in CollIds |-> << >>]
    /\ jobs = [j \in JobIds |-> NoJob]
    /\ download_threads = [j \in JobIds |-> NoWorker]
    /\ thr = [t \in Threads |-> Idle]
    /\ now = 0
    /\ nextJob = 1
    /\ evicted = {}
    /\ nreq = 0
    /\ \E f \in ShortNames \cup LongNames : call = [fn |-> "_sanitize_filename", filename |-> f, result |-> None]

\* line 213: filename = self._sanitize_filename(f"{title}.{ext}")
SanitizeCall ==
    /\ call.fn = "_sanitize_filename"
    /\ call.result = None
    /\ call' = [call EXCEPT !.result = Some(_sanitize_filename(call.filename))]
    /\ UNCHANGED <<fillers, dk_usable, session_jobs, colls, jobs, download_threads, thr, now, nextJob, evicted, nreq>>

SanitizeSpec == SanitizeInit /\ [][SanitizeCall]_vars
\* ====================================================== properties
JobExists(j) == jobs[j].status # "absent"

\* start_download has returned job id j
Returned(j) == download_threads[j].returned

\* job dicts a request thread has read for its response
Observed == {thr[t].val[1] : t \in {u \in Threads : thr[u].pc = "ret" /\ thr[u].op = "status" /\ thr[u].code = 200}} \cup UNION {{thr[t].val.jobs[i] : i \in DOMAIN thr[t].val.jobs} : t \in {u \in Threads : thr[u].pc = "ret" /\ thr[u].op = "jobs" /\ thr[u].code = 200}}

\* C1: session isolation.  A GET /status/j for session A that has
\* answered answered 404, with no job, whenever j is stored under another
\* session, and a job it returned is the job j created in session A.
C1_SessionIsolation == \A t \in Threads : (thr[t].pc = "ret" /\ thr[t].op = "status") => (((\E b \in SessionIds \ {thr[t].sid} : Stored(thr[t].jid, b)) => (thr[t].code = 404 /\ thr[t].val = None)) /\ ((thr[t].code = 200) => (thr[t].val[1].session_id = thr[t].sid /\ thr[t].val[1].id = thr[t].jid)))

\* C2: a cancel_job that was called on a job whose status was ready or
\* error, and that has returned True, has left the job's status,
\* download_url, filename, error and completed_at as they were at the call.
TerminalFields(job) == <<job.status, job.download_url, job.filename, job.error, job.completed_at>>

C2_CancelKeepsTerminal == \A t \in Threads : (thr[t].op = "cancel" /\ thr[t].pc = "ret" /\ thr[t].val = Some(TRUE) /\ thr[t].pre.status \in {"ready", "error"}) => TerminalFields(jobs[thr[t].jid]) = TerminalFields(thr[t].pre)

\* C3: a cancelled job stays cancelled: no later step, the worker's
\* write-back included, changes its status.
C3_CancelledIsTerminal == [][\A j \in JobIds : jobs[j].status = "cancelled" => jobs'[j].status = "cancelled"]_vars

\* C4: read-your-write.  Once start_download has returned j for session s,
\* and as long as no sweep has evicted s, j is in the collection of s (so
\* that get_job_status(s, j) finds it).
C4_ReadYourWrite == \A j \in JobIds : (Returned(j) /\ jobs[j].session_id \notin evicted) => Stored(j, jobs[j].session_id)

\* C5: a worker whose resolver call has finished and which has run to its
\* end has left its job with a status other than processing.
C5_WorkerLeavesProcessing == \A j \in JobIds : download_threads[j].pc \in {"done", "crashed"} => jobs[j].status # "processing"

\* C6: no worker thread ends with an uncaught exception.
C6_WorkerNeverRaises == \A j \in JobIds : download_threads[j].pc # "crashed"

\* C7: when two start_download calls for the same session have both
\* returned, with no eviction at all, the collection of that session holds
\* both jobs.
C7_ConcurrentFirstUse == \A t \in Threads, u \in Threads : (t # u /\ thr[t].op = "start" /\ thr[u].op = "start" /\ thr[t].pc = "ret" /\ thr[u].pc = "ret" /\ thr[t].code = 200 /\ thr[u].code = 200 /\ thr[t].sid = thr[u].sid /\ evicted = {}) => (Stored(thr[t].val, thr[t].sid) /\ Stored(thr[u].val, thr[u].sid))

\* C8: a job leaves the collection of its session only in a step that
\* deletes the session's key from session_jobs (a deletion of the sweep).
C8_OnlySweepRemoves == [][\A j \in JobIds, s \in SessionIds : (Stored(j, s) /\ ~Stored(j, s)') => (Has(session_jobs, s) /\ ~Has(session_jobs', s))]_vars

\* C9: for every stored job, download_url is set only if status is ready,
\* and error is set only if status is error.
C9_StatusPayload == \A j \in JobIds : (JobExists(j) /\ Stored(j, jobs[j].session_id)) => ((jobs[j].download_url # None => jobs[j].status = "ready") /\ (jobs[j].error # None => jobs[j].status = "error"))

\* C10: no torn read of a ready job.  In the heap and in every job dict a
\* request thread has read, status ready comes with a non-empty
\* download_url, a filename and progress 100.
ReadyComplete(job) == job.status = "ready" => (job.download_url # None /\ job.download_url # Some("") /\ job.filename # None /\ job.progress = 100)

C10_NoTornReady == (\A j \in JobIds : JobExists(j) => ReadyComplete(jobs[j])) /\ (\A job \in Observed : ReadyComplete(job))

\* C10 witness: GET /status has returned a ready job
C10_Witness == \E t \in Threads : thr[t].pc = "ret" /\ thr[t].op = "status" /\ thr[t].code = 200 /\ thr[t].val[1].status = "ready"

\* C11: completed_at tracks terminality.  In every job dict a request
\* thread has read for its response (GET /status, GET /jobs), completed_at
\* is None exactly when status is processing.
CompletedAtTracks(job) == (job.completed_at = None) <=> (job.status = "processing")

C11_CompletedAtTracksStatus == \A job \in Observed : CompletedAtTracks(job)

\* C12: the age rule removes only old sessions.  In every step in which a
\* sweep's age rule (line 79-81) deletes a session, no job of the collection
\* that session holds at that moment is younger than the TTL.
C12_AgeRuleOnlyOld == [][\A t \in Threads, s \in SessionIds : (thr[t].pc = "age_del" /\ thr[t].rem # << >> /\ Head(thr[t].rem) = s /\ thr'[t].pc = "age_del" /\ thr'[t].rem = Tail(thr[t].rem) /\ Has(session_jobs, s) /\ ~Has(session_jobs', s)) => \A i \in DOMAIN colls[Get(session_jobs, s)] : ~Recent(colls[Get(session_jobs, s)][i], now - SESSION_TIMEOUT_HOURS)]_vars

\* C15: session-count bound.  Whenever requests have been served and none
\* is in progress, the store holds at most MAX_SESSIONS sessions.
C15_SessionCountBound == (nreq > 0 /\ \A t \in Threads : thr[t].pc \in {"idle", "ret"}) => StoreLen(session_jobs, fillers) <= MAX_SESSIONS

\* C19: lookups are total.  No step of get_session_jobs, get_job_status,
\* cancel_job or list_session_jobs raises (which would end the request
\* with the 500 of an uncaught exception).
LookupPcs == {"gsj_new", "gsj_load", "status", "download", "cancel", "c_status", "c_stamp", "c_completed", "jobs"}

C19_LookupsTotal == [][\A t \in Threads : (thr[t].op \in LookupOps /\ thr[t].pc \in LookupPcs) => thr'[t].code # 500]_vars

\* C17: GET /download.  A request that has answered answered 404, 400 or
\* 200: 200 only for the job of the caller's session that it read with
\* status ready, and then with a download_url that is neither None nor
\* empty; 404 when the job is not a job of the caller's session; and 400
\* when the status it read is processing, error or cancelled.
DownloadAnswers(r) == r.code \in {200, 400, 404}

DownloadSuccessOk(r) == r.code = 200 => (r.pre.status = "ready" /\ r.pre.session_id = r.sid /\ r.pre.id = r.jid /\ r.val.download_url # None /\ r.val.download_url # Some(""))

DownloadNotFoundOk(r) == (~JobExists(r.jid) \/ jobs[r.jid].session_id # r.sid \/ r.pre = NoJob) => r.code = 404

DownloadNotReadyOk(r) == (r.pre # None /\ r.pre.status \in {"processing", "error", "cancelled"}) => r.code = 400

C17_DownloadOnlyReady == \A t \in Threads : (thr[t].op = "download" /\ thr[t].pc = "ret") => (DownloadAnswers(thr[t]) /\ DownloadSuccessOk(thr[t]) /\ DownloadNotFoundOk(thr[t]) /\ DownloadNotReadyOk(thr[t]))

\* C16: cancel_job.  In every step of a request thread that runs cancel_job:
\* when the call returns, it returns True exactly when the job was in the
\* collection of the session at the time of the call (for a session that no
\* sweep has evicted); line 270 turns the status of a processing job into
\* cancelled; and no other step of the call (so no step of a call that
\* returns False) changes the status of any job.
CancelReturnOk(t) == (thr'[t].pc = "ret" /\ thr'[t].code = 200 /\ thr[t].sid \notin evicted) => ((thr'[t].val = Some(TRUE)) <=> (thr[t].pre.status # "absent"))

CancelMarks(t) == (thr[t].pc = "c_status" /\ jobs[thr[t].jid].status = "processing") => jobs'[thr[t].jid].status = "cancelled"

CancelFrame(t) == thr[t].pc # "c_status" => \A j \in JobIds : jobs'[j].status = jobs[j].status

C16_CancelReturnsFound == [][\A t \in Threads : (thr[t].op = "cancel" /\ thr'[t].pc # thr[t].pc) => (CancelReturnOk(t) /\ CancelMarks(t) /\ CancelFrame(t))]_vars

\* C18: one worker per job, started without waiting.  Line 129-135 start
\* the worker of the job just stored, which has not run before, and no
\* other worker; a worker
\* is started only there and never again; start_download returns job id j
\* only after it started the worker of j, in a step that is enabled
\* whatever the worker is doing and that leaves the worker alone; a worker
\* that has written its outcome takes no further step; and a step of the
\* worker of j changes no job dict other than that of j.
StartStartsWorker == \A t \in Threads : (thr[t].pc = "sd_thread" /\ thr'[t].pc = "sd_return") => (download_threads[thr[t].jid].pc = "none" /\ download_threads'[thr[t].jid].pc = "resolving" /\ \A j \in JobIds \ {thr[t].jid} : download_threads'[j].pc = download_threads[j].pc)

StartReturnsJob == \A t \in Threads : (thr[t].op = "start" /\ thr[t].pc # "ret" /\ thr'[t].pc = "ret" /\ thr'[t].code = 200) => (thr[t].pc = "sd_return" /\ thr'[t].val = thr[t].jid /\ download_threads[thr[t].jid].pc # "none" /\ \A j \in JobIds : download_threads'[j].pc = download_threads[j].pc)

WorkerStartedOnce == \A j \in JobIds : (download_threads'[j].pc = "resolving" /\ download_threads[j].pc # "resolving") => (download_threads[j].pc = "none" /\ \E t \in Threads : thr[t].pc = "sd_thread" /\ thr[t].jid = j /\ thr'[t].pc = "sd_return")

WorkerEnds == \A j \in JobIds : download_threads[j].pc \in {"done", "crashed"} => download_threads'[j].pc = download_threads[j].pc

WorkerWritesOwnJob == \A j \in JobIds : download_threads'[j].pc # download_threads[j].pc => \A k \in JobIds \ {j} : jobs'[k] = jobs[k]

StartDoesNotWait == \A t \in Threads : thr[t].pc = "sd_return" => ENABLED StartReturn(t)

C18_OneWorkerPerJob == []StartDoesNotWait /\ [][StartStartsWorker /\ StartReturnsJob /\ WorkerStartedOnce /\ WorkerEnds /\ WorkerWritesOwnJob]_vars

\* C18 witness: start_download has returned a job id while the resolver
\* call of that job's worker is still running, and another job's worker has
\* written its outcome
C18_Witness == \E t \in Threads : thr[t].op = "start" /\ thr[t].pc = "ret" /\ thr[t].code = 200 /\ download_threads[thr[t].val].pc = "resolving" /\ jobs[thr[t].val].status = "processing" /\ \E k \in JobIds \ {thr[t].val} : download_threads[k].pc = "done"

\* the jobs that start_download made for session s (line 113)
JobsOf(s) == {j \in JobIds : JobExists(j) /\ jobs[j].session_id = s}

\* line 72-73 for a sweep that reads the clock now: created > cutoff is
\* false (a job made exactly SESSION_TIMEOUT_HOURS ago is old)
OlderThanTTL(j) == ~Recent(j, now - SESSION_TIMEOUT_HOURS)

\* line 70-76 for the session stored under s: all_old and jobs
AllOlderThanTTL(s) == Has(session_jobs, s) /\ colls[Get(session_jobs, s)] # << >> /\ \A i \in DOMAIN colls[Get(session_jobs, s)] : OlderThanTTL(colls[Get(session_jobs, s)][i])

\* the jobs made for session s, at least one, are all old
HeldOnlyOldJobs(s) == JobsOf(s) # {} /\ \A j \in JobsOf(s) : OlderThanTTL(j)

\* C13: the age rule removes every old session.  After one complete run of
\* cleanup_old_sessions with nothing else running, no session is left in
\* the store that holds at least one job and whose jobs were all created
\* SESSION_TIMEOUT_HOURS ago or earlier, and every session whose jobs were
\* all that old is gone with all of its jobs.
C13_AgeRuleRemovesOld == thr[1].pc = "body" => \A s \in SweepSessionIds : ~AllOlderThanTTL(s) /\ (HeldOnlyOldJobs(s) => (~Has(session_jobs, s) /\ \A j \in JobsOf(s), s2 \in SweepSessionIds : ~Stored(j, s2)))

\* C13 witness: a complete run has removed an old session with its job
\* and has kept a session that holds a job
C13_Witness == thr[1].pc = "body" /\ (\E s \in SweepSessionIds : HeldOnlyOldJobs(s) /\ s \in evicted) /\ (\E s \in SweepSessionIds : Has(session_jobs, s) /\ JobsOf(s) # {} /\ \A j \in JobsOf(s) : Stored(j, s))

\* C14: the capacity rule.  When the age rule is over and the store holds
\* n sessions: if n <= MAX_SESSIONS line 85-87 do not run and nothing more
\* is removed; if n > MAX_SESSIONS the sessions picked at line 85 are
\* n - MAX_SESSIONS keys of the store, each smaller than every key that is
\* kept, each deletion removes the picked key and nothing else, and the
\* rule ends with exactly MAX_SESSIONS sessions.
StoreKeys == Keys(session_jobs) \cup {FillerTop - fillers + i : i \in 1..fillers}

Picked(t) == {thr'[t].rem[i] : i \in DOMAIN thr'[t].rem}

CapacityTests(t) == (thr[t].pc = "age_del" /\ thr[t].rem = << >> /\ thr'[t].pc # "age_del") => (session_jobs' = session_jobs /\ fillers' = fillers /\ thr'[t].pc = IF StoreLen(session_jobs, fillers) <= MAX_SESSIONS THEN "body" ELSE "cap_keys")

CapacityPicks(t) == (thr[t].pc = "cap_len" /\ thr'[t].pc # "cap_len") => (session_jobs' = session_jobs /\ fillers' = fillers /\ thr'[t].pc = "cap_del" /\ Cardinality(Picked(t)) = StoreLen(session_jobs, fillers) - MAX_SESSIONS /\ Len(thr'[t].rem) = Cardinality(Picked(t)) /\ Picked(t) \subseteq StoreKeys /\ \A r \in Picked(t), k \in StoreKeys \ Picked(t) : r < k)

CapacityDeletes(t) == (thr[t].pc = "cap_del" /\ thr'[t].pc # "cap_del") => (thr'[t].pc = "body" /\ StoreLen(session_jobs', fillers') = MAX_SESSIONS)

CapacityDeletesOne(t) == thr[t].pc = "cap_del" => (Head(thr[t].rem) \in StoreKeys /\ StoreKeys' = StoreKeys \ {Head(thr[t].rem)} /\ thr'[t].rem = Tail(thr[t].rem))

BodyKeepsStore(t) == thr[t].pc \in {"cap_keys", "body"} => (session_jobs' = session_jobs /\ fillers' = fillers)

C14_CapacityRule == [][CapacityTests(1) /\ CapacityPicks(1) /\ CapacityDeletes(1) /\ CapacityDeletesOne(1) /\ BodyKeepsStore(1)]_vars

\* C14 witness: no session was old, and the capacity rule has cut a store
\* of MAX_SESSIONS + 1 filler sessions and NumSweepSessions others down to
\* MAX_SESSIONS, the filler sessions with the largest keys
C14_Witness == thr[1].pc = "body" /\ fillers = MAX_SESSIONS /\ Keys(session_jobs) = {} /\ evicted = SweepSessionIds /\ (\E j \in JobIds : JobExists(j)) /\ (\A s \in SweepSessionIds : ~HeldOnlyOldJobs(s))

\* C20: the format selector.  A call that has returned gave format_id when
\* a non-empty format_id was supplied, whatever the quality; otherwise
\* "bestaudio/best" for quality "audio", "best" for quality "best", and the
\* quality itself for every other quality.
HasFormatId(c) == c.format_id # None /\ c.format_id # Some("")

C20_FormatSelector == call.result # None => (/\ (HasFormatId(call) => call.result = call.format_id) /\ ((~HasFormatId(call) /\ call.quality = "audio") => call.result = Some("bestaudio/best")) /\ ((~HasFormatId(call) /\ call.quality = "best") => call.result = Some("best")) /\ ((~HasFormatId(call) /\ call.quality \notin {"audio", "best"}) => call.result = Some(call.quality)))

\* C20 witness: a call with quality "audio" and a non-empty format_id has
\* returned the format_id
C20_Witness == call.result # None /\ call.quality = "audio" /\ call.format_id = Some("137") /\ call.result = Some("137")

\* C21: candidate selection.  For a resolver result without a top-level
\* url: when some candidate format has a non-empty url, the worker goes to
\* its success write-back with the url of the first such candidate; when
\* the list is empty or no candidate has one, it takes the error path and
\* never the success write-back.
FirstWithUrl(f, i) == i \in DOMAIN f /\ Truthy(f[i]) /\ \A k \in DOMAIN f : k < i => ~Truthy(f[k])

C21_CandidateSelection == (call.result # None /\ ~Truthy(call.info.url)) => IF \E i \in DOMAIN call.info.formats : Truthy(call.info.formats[i]) THEN (call.result[1].pc = "update" /\ \E i \in DOMAIN call.info.formats : FirstWithUrl(call.info.formats, i) /\ call.result[1].url = call.info.formats[i]) ELSE (call.result[1].pc = "except" /\ call.result[1].url = None /\ call.result[1].err # None)

\* C21 witness: the top-level url is empty, the first candidate has no url,
\* and the url of the second was selected although the last has one too
C21_Witness == call.result # None /\ call.info.url = Some("") /\ Len(call.info.formats) = MaxFormats /\ call.info.formats[1] = None /\ call.info.formats[2] = Some("a") /\ call.info.formats[MaxFormats] = Some("b") /\ call.result[1].url = Some("a")

\* C22: sanitization.  The name returned contains none of the characters
\* < > : " / \ | ? * and, when the stripped name has at most 100 characters
\* (no truncation), it is the input with exactly those characters deleted,
\* the others kept in order.
Forbidden == {"<", ">", ":", "\"", "/", "\\", "|", "?", "*"}

Kept(ch) == ch \notin Forbidden

Stripped(q) == SelectSeq(q, Kept)

C22_SanitizeStrips == call.result # None => ((\A i \in DOMAIN call.result[1] : call.result[1][i] \notin Forbidden) /\ (Len(Stripped(call.filename)) <= 100 => call.result[1] = Stripped(call.filename)))

\* C22 witness: a name made of a backslash, a letter and a star came back
\* as the letter alone
C22_Witness == call.result # None /\ call.filename = <<"\\", "a", "*">> /\ call.result = Some(<<"a">>)

\* C23 as stated: when the stripped name 'title.ext' is longer than 100
\* characters, the name returned is the first 90 characters of the part
\* before the last dot, followed by "." and the part after the last dot;
\* when it has 100 characters or fewer, it is the stripped name.
DotAt(q) == {i \in DOMAIN q : q[i] = "."}

LastDotAt(q) == CHOOSE i \in DOMAIN q : q[i] = "." /\ \A k \in DotAt(q) : k <= i

BaseName(q) == IF DotAt(q) = {} THEN q ELSE SubSeq(q, 1, LastDotAt(q) - 1)

Extension(q) == IF DotAt(q) = {} THEN << >> ELSE SubSeq(q, LastDotAt(q) + 1, Len(q))

First90(q) == IF Len(q) <= 90 THEN q ELSE SubSeq(q, 1, 90)

C23_AlwaysDotAndExtension == (call.result # None /\ DotAt(Stripped(call.filename)) # {}) => IF Len(Stripped(call.filename)) > 100 THEN call.result[1] = First90(BaseName(Stripped(call.filename))) \o <<".">> \o Extension(Stripped(call.filename)) ELSE call.result[1] = Stripped(call.filename)

\* C23: truncation.  When the stripped name is longer than 100 characters,
\* the name returned is the first 90 characters of the part before the last
\* dot, followed by "." and the part after the last dot when that part is
\* not empty, and by nothing when it is empty or the name has no dot; when
\* the stripped name has 100 characters or fewer, it is returned as it is.
DotAndExtension(q) == IF Extension(q) = << >> THEN << >> ELSE <<".">> \o Extension(q)

C23_SanitizeTruncates == call.result # None => IF Len(Stripped(call.filename)) > 100 THEN call.result[1] = First90(BaseName(Stripped(call.filename))) \o DotAndExtension(Stripped(call.filename)) ELSE call.result[1] = Stripped(call.filename)

\* C23 witness: the longest title with a dot inside and the extension mp4
\* came back as its first 90 characters, the dot and mp4
C23_Witness == call.result # None /\ call.filename = <<"x", ".">> \o Rep("x", MaxTitleLen - 2) \o <<".", "m", "p", "4">> /\ call.result = Some(<<"x", ".">> \o Rep("x", 88) \o <<".", "m", "p", "4">>)

\* C24: GET /jobs.  A GET /jobs that has answered for session S lists
\* exactly the jobs that were stored under S when it read them, in insertion
\* order, all of them jobs of S, with total the number of jobs listed and
\* active the number of jobs listed whose status is processing.
ListedIds(t) == [i \in DOMAIN thr[t].val.jobs |-> thr[t].val.jobs[i].id]

ListedActive(t) == Cardinality({i \in DOMAIN thr[t].val.jobs : thr[t].val.jobs[i].status = "processing"})

ListAnswered(t) == thr[t].pc = "ret" /\ thr[t].op = "jobs" /\ thr[t].code = 200

C24_ListJobs == \A t \in Threads : ListAnswered(t) => (thr[t].pre = Some(ListedIds(t)) /\ (\A i \in DOMAIN thr[t].val.jobs : thr[t].val.jobs[i].session_id = thr[t].sid) /\ thr[t].val.total = Len(thr[t].val.jobs) /\ thr[t].val.active = ListedActive(t))

\* C25: sweep safety under concurrency.  No step of the sweep of a
\* POST /start (the scan of the store, the deletions of the age rule and
\* of the capacity rule) faults: the request never leaves its sweep with
\* a 500.
InSweep(t) == thr[t].op = "start" /\ thr[t].pc \in {"scan_iter", "scan_next", "scan_jobs", "scan_job_next", "scan_if", "age_del", "cap_keys", "cap_len", "cap_del"}

C25_SweepNeverFaults == [][\A t \in Threads : InSweep(t) => thr'[t].code # 500]_vars

\* C26: identity fields.  No step changes the id, session_id, url,
\* quality_requested or created_at of a job that exists, and a job that
\* comes into being carries its own id.
IdentityFields(job) == <<job.id, job.session_id, job.url, job.quality_requested, job.created_at>>

IdentityKept(j) == JobExists(j) => (JobExists(j)' /\ IdentityFields(jobs'[j]) = IdentityFields(jobs[j]))

IdentitySet(j) == (~JobExists(j) /\ JobExists(j)') => (jobs'[j].id = j /\ \E t \in Threads : thr[t].op = "start" /\ thr[t].pc = "sd_insert" /\ thr[t].jid = j /\ jobs'[j].session_id = thr[t].sid /\ jobs'[j].created_at = thr[t].clk)

C26_IdentityImmutable == [][\A j \in JobIds : IdentityKept(j) /\ IdentitySet(j)]_vars

\* C26 witness: a cancel has returned True for a job created before the
\* clock advanced, whose worker had written its error
C26_Witness == \E t \in Threads : thr[t].op = "cancel" /\ thr[t].pc = "ret" /\ thr[t].val = Some(TRUE) /\ jobs[thr[t].jid].error # None /\ jobs[thr[t].jid].status = "cancelled" /\ jobs[thr[t].jid].session_id = thr[t].sid /\ jobs[thr[t].jid].created_at < now

\* C27: lookups are not read-only.  The step of line 99 of a lookup that
\* found its session id absent leaves that id in the store with an empty
\* collection, and no step of a lookup removes a session id (a lookup runs
\* no sweep).
LookupStep(t) == thr[t].op \in LookupOps /\ thr'[t].pc # thr[t].pc

LookupInserts(t) == (LookupStep(t) /\ thr[t].pc = "gsj_new") => (Has(session_jobs', thr[t].sid) /\ colls'[Get(session_jobs', thr[t].sid)] = << >>)

LookupKeepsKeys(t) == LookupStep(t) => \A s \in SessionIds : Has(session_jobs, s) => Has(session_jobs', s)

LookupFindsAbsent(t) == (thr[t].pc = "idle" /\ thr'[t].op \in LookupOps) => (thr'[t].pc = "gsj_new" <=> ~Has(session_jobs, thr'[t].sid))

C27_LookupsInsert == [][\A t \in Threads : LookupInserts(t) /\ LookupKeepsKeys(t) /\ LookupFindsAbsent(t)]_vars

\* C27 witness: without any job ever created, the store holds every
\* session id in play, each with an empty collection, and a lookup has
\* answered for one of them
C27_Witness == nextJob = 1 /\ Used(session_jobs) = NumSessions /\ (\A s \in SessionIds : Has(session_jobs, s) /\ colls[Get(session_jobs, s)] = << >>) /\ \E t \in Threads : thr[t].op \in LookupOps /\ thr[t].pc = "ret" /\ thr[t].code # 500

\* C28: a deletion of the age rule never removes a session whose
\* collection is empty.
AgeDeletes(t, s) == thr[t].pc = "age_del" /\ thr[t].rem # << >> /\ Head(thr[t].rem) = s /\ thr'[t].pc = "age_del" /\ thr'[t].rem = Tail(thr[t].rem) /\ Has(session_jobs, s) /\ ~Has(session_jobs', s)

C28_AgeRuleKeepsEmpty == [][\A t \in Threads, s \in SessionIds : AgeDeletes(t, s) => colls[Get(session_jobs, s)] # << >>]_vars

\* C29: no return to processing.  No step sets the status of a job that
\* exists to processing unless it was processing already, and no step
\* lowers its progress.
NoReturnToProcessing(j) == (JobExists(j) /\ jobs'[j].status = "processing") => jobs[j].status = "processing"

ProgressGrows(j) == JobExists(j) => jobs'[j].progress >= jobs[j].progress

C29_NoReturnToProcessing == [][\A j \in JobIds : NoReturnToProcessing(j) /\ ProgressGrows(j)]_vars

\* C29 witness: a job whose worker wrote ready and progress 100 has been
\* cancelled since and still has progress 100
C29_Witness == \E j \in JobIds : jobs[j].status = "cancelled" /\ jobs[j].progress = 100 /\ jobs[j].download_url # None /\ download_threads[j].pc = "done"
====
